---- MODULE Spec2Model ----
(***************************************************************************)
(* State-machine model of the token analyzer's orchestration logic:       *)
(* provider/model selection, the two chat contexts (text, pdf), the       *)
(* streaming send loop with its token ledger, cancellation through abort  *)
(* controllers, the one-shot token counts and the error classifier.       *)
(* React state is modelled by variables holding the committed state; a    *)
(* handler reads the state committed when it is invoked (its closure) and *)
(* functional updates (setX(prev => ...)) read the state current when     *)
(* they run.                                                               *)
(***************************************************************************)
EXTENDS Integers, Sequences, FiniteSets, TLC

VARIABLES
    selectedProvider,   \* App.tsx:34
    apiKey,             \* App.tsx:35
    selectedModel,      \* App.tsx:36
    storyText,          \* App.tsx:37
    pdfFile,            \* App.tsx:38   (0 = null, else a file id)
    pdfBase64Data,      \* App.tsx:40
    tokenCount,         \* App.tsx:42-43  [kind -> count or NoCount]
    isLoadingCount,     \* App.tsx:45-46  [kind -> BOOLEAN]
    error,              \* App.tsx:47   generic banner
    apiKeyError,        \* App.tsx:48   credential banner
    session,            \* App.tsx:52,60  [ctx -> 0 (null) or session id]
    messages,           \* App.tsx:53,61  [ctx -> Seq(ChatMessage)]
    loading,            \* App.tsx:54,62  [ctx -> BOOLEAN]
    chatError,          \* App.tsx:55,63  [ctx -> string or Null]
    tokenDetails,       \* App.tsx:56,64  [ctx -> ledger record or NullDetails]
    abortRef,           \* App.tsx:57,65  [ctx -> 0 (null) or controller id]
    aborted,            \* set of controller ids whose signal.aborted is true
    turns,              \* in-flight / finished handleSendMessage invocations
    nTurns,             \* number of handleSendMessage invocations that started a turn
    countOps,           \* in-flight analyze*Tokens invocations (a sequence of records)
    pdfReads,           \* in-flight handlePdfChange invocations awaiting fileToBase64
    invoked,            \* the provider adapter operations invoked by the last step
    history,            \* per context: what the ledger claims are stated over (History)
    pendingEffects,     \* useEffect callbacks scheduled by the last commit
    classified,         \* the failure and context last classified on its own (SpecClassify)
    stubCall            \* the stub chat operation last called on its own (SpecStub)

vars == <<selectedProvider, apiKey, selectedModel, storyText, pdfFile, pdfBase64Data,
          tokenCount, isLoadingCount, error, apiKeyError, session, messages, loading,
          chatError, tokenDetails, abortRef, aborted, turns, nTurns, countOps,
          pdfReads, invoked, history, pendingEffects, classified, stubCall>>

selectionVars == <<selectedProvider, apiKey, selectedModel>>
contentVars   == <<storyText, pdfFile, pdfBase64Data>>
countVars     == <<tokenCount, isLoadingCount, countOps, pdfReads>>
unitVars      == <<classified, stubCall>>
chatVars      == <<session, messages, loading, chatError, tokenDetails, abortRef,
                   aborted, turns, nTurns, history>>

-----------------------------------------------------------------------------
(* Bounds of the model *)

MaxTurns == 2       \* handleSendMessage invocations that start a turn
MaxFrags == 1       \* response fragments folded per turn
MaxFoldFrags == 3   \* response fragments folded per turn in the fold specification

-----------------------------------------------------------------------------
(* Values *)

Null == "null"                       \* a null string slot
NoCount == -1                        \* a null token count
NullDetails == [isNull |-> TRUE]     \* a null ledger

Contexts == {"text", "pdf"}
Kinds == {"text", "pdf"}

LLM_PROVIDER_IDS == {"google", "anthropic", "openai"}

ProviderName(p) ==
    CASE p = "google" -> "Google Gemini"
      [] p = "anthropic" -> "Anthropic Claude"
      [] p = "openai" -> "OpenAI GPT"

AVAILABLE_MODELS_BY_PROVIDER(p) ==
    CASE p = "google" -> <<"gemini-2.5-flash-preview-04-17">>
      [] p = "anthropic" -> <<"claude-3-opus-20240229", "claude-3-sonnet-20240229",
                              "claude-3-haiku-20240307">>
      [] p = "openai" -> <<"gpt-4-turbo", "gpt-4o", "gpt-3.5-turbo">>

ModelsOf(p) == {AVAILABLE_MODELS_BY_PROVIDER(p)[i] :
                    i \in 1..Len(AVAILABLE_MODELS_BY_PROVIDER(p))}

-----------------------------------------------------------------------------
(* JavaScript string operations used by the code *)

UpperChars == <<"A","B","C","D","E","F","G","H","I","J","K","L","M",
                "N","O","P","Q","R","S","T","U","V","W","X","Y","Z">>
LowerChars == <<"a","b","c","d","e","f","g","h","i","j","k","l","m",
                "n","o","p","q","r","s","t","u","v","w","x","y","z">>

LowerChar(c) ==
    IF \E i \in 1..Len(UpperChars) : UpperChars[i] = c
    THEN LowerChars[CHOOSE i \in 1..Len(UpperChars) : UpperChars[i] = c]
    ELSE c

\* character by character; the string is halved to keep the recursion shallow
RECURSIVE toLowerCase(_)
toLowerCase(s) ==
    IF Len(s) = 0 THEN ""
    ELSE IF Len(s) = 1 THEN LowerChar(s)
    ELSE toLowerCase(SubSeq(s, 1, Len(s) \div 2))
             \o toLowerCase(SubSeq(s, Len(s) \div 2 + 1, Len(s)))

includes(s, p) ==
    \E i \in 1..(Len(s) - Len(p) + 1) : SubSeq(s, i, i + Len(p) - 1) = p

RECURSIVE trimStart(_)
trimStart(s) ==
    IF Len(s) > 0 /\ SubSeq(s, 1, 1) = " " THEN trimStart(SubSeq(s, 2, Len(s))) ELSE s

RECURSIVE trimEnd(_)
trimEnd(s) ==
    IF Len(s) > 0 /\ SubSeq(s, Len(s), Len(s)) = " "
    THEN trimEnd(SubSeq(s, 1, Len(s) - 1)) ELSE s

trim(s) == trimEnd(trimStart(s))

\* JavaScript truthiness of a nullable string: null and "" are falsy.
Truthy(s) == s # Null /\ s # ""

-----------------------------------------------------------------------------
(* Failures: an Error object is its name and its message *)

Err(name, message) == [name |-> name, message |-> message]

\* geminiService's error wrapper: the name of the wrapped failure is always "Error".
handleApiError(e, context) ==
    IF includes(e.message, "API_KEY_INVALID")
       \/ includes(e.message, "API key not valid")
       \/ includes(e.message, "permission to access project")
       \/ includes(e.message, "PERMISSION_DENIED")
    THEN Err("Error", "Gemini API error: Invalid API Key or insufficient permissions. Please check your key and its configuration. Original: " \o e.message)
    ELSE IF includes(e.message, "Quota exceeded")
    THEN Err("Error", "Gemini API error: Quota exceeded for your API key. Please check your Google AI Studio dashboard. Original: " \o e.message)
    ELSE IF e.name = "AbortError"
    THEN Err("Error", "Request aborted during " \o context \o ".")
    ELSE Err("Error", "Gemini API error during " \o context \o ": " \o e.message)

-----------------------------------------------------------------------------
(* Inputs *)

ApiKeys == {"", " ", "k"}
StoryTexts == {"", "  ", "tale"}
PdfFiles == {1, 2}
Base64Of(f) == IF f = 1 THEN "JVBERi0x" ELSE "JVBERi0y"

\* what the Gemini SDK can report for a token count
GeminiCounts == {0, 7}

\* failures the vendor SDK (or the browser) can raise; NoSdkFailure: it raises none
NoSdkFailure == Err("", "")
SdkAbort == Err("AbortError", "signal is aborted without reason")
SdkErrors == {
    SdkAbort,
    Err("Error", "API key not valid"),
    Err("Error", "Quota exceeded"),
    Err("Error", "fetch failed"),
    Err("Error", "authentication_error") }

\* the contexts geminiService passes to handleApiError
WrapContexts == {"counting text tokens", "counting PDF tokens",
                 "creating chat session", "sending chat message"}

\* failures handed to the classifier when it is checked on its own
ClassifyMessages == {
    "", "fetch failed",
    "Invalid API Key provided", "PERMISSION denied for project",
    "Quota exceeded: retry in 30s", "authentication_error", "billing_not_active",
    "Incorrect API key", "api_key_missing", "insufficient_quota", "rate_limit_exceeded" }
ClassifyInputs ==
    {Err(n, m) : n \in {"Error", "ApiKeyOrPermissionError"}, m \in ClassifyMessages}
OperationContexts == {"analyze text tokens", "analyze PDF tokens"}

-----------------------------------------------------------------------------
(* Error classifier: the tests on a failure *)

\* the condition of handleApiServiceError's if
IsCredentialRoute(e) ==
    \/ e.name = "ApiKeyOrPermissionError"
    \/ /\ Truthy(e.message)
       /\ \/ includes(toLowerCase(e.message), "api key")
          \/ includes(toLowerCase(e.message), "permission")
          \/ includes(toLowerCase(e.message), "quota")
          \/ includes(toLowerCase(e.message), "authentication_error")
          \/ includes(toLowerCase(e.message), "billing_not_active")

\* e.message || 'Unknown error'
ErrorMessageOf(e) == IF Truthy(e.message) THEN e.message ELSE "Unknown error"

\* the credential test of handleSendMessage's catch block (lines 467 and 473)
IsChatCredentialFailure(e) ==
    \/ e.name = "ApiKeyOrPermissionError"
    \/ includes(toLowerCase(ErrorMessageOf(e)), "api key")
    \/ includes(toLowerCase(ErrorMessageOf(e)), "permission")
    \/ includes(toLowerCase(ErrorMessageOf(e)), "quota")

GenericBanner(e, operationContext) ==
    "Failed to " \o operationContext \o ": " \o ErrorMessageOf(e)

-----------------------------------------------------------------------------
(* Provider adapters: validation and the stub providers' results.           *)
(* An adapter result is Ok(value) or Fail(failure).                          *)

Ok(v) == [ok |-> TRUE, value |-> v, e |-> [name |-> "", message |-> ""]]
Fail(e) == [ok |-> FALSE, value |-> 0, e |-> e]

IsBlank(s) == trim(s) = ""

\* validateApiKey of each service: the failure raised for a blank key, per provider
validateApiKeyFailure(p) ==
    CASE p = "google" ->
           Err("Error", "Gemini API Key is required and was not provided to the service function.")
      [] p = "anthropic" ->
           Err("ApiKeyOrPermissionError", "Anthropic API Key is required and was not provided.")
      [] p = "openai" ->
           Err("ApiKeyOrPermissionError", "OpenAI API Key is required and was not provided.")

\* The checks an adapter's count operation makes before it computes or calls the SDK:
\* the failure raised, or NoPrecheckFailure.
NoPrecheckFailure == Err("", "")

CountPrecheck(p, kind, key, model, content) ==
    IF IsBlank(key) THEN validateApiKeyFailure(p)
    ELSE IF p = "google" /\ IsBlank(model)
         THEN Err("Error", "Model name is required for Gemini API calls.")
    ELSE IF p # "google" /\ model = "" THEN Err("Error", "Model name is required.")
    ELSE IF kind = "pdf" /\ p = "google" /\ (content = Null \/ IsBlank(content))
         THEN Err("Error", "PDF data is required for counting tokens.")
    ELSE IF kind = "pdf" /\ p # "google" /\ ~Truthy(content)
         THEN Err("Error", "PDF data is required.")
    ELSE NoPrecheckFailure

\* the stub providers' estimates: Math.floor(text.length / 4), Math.floor(data.length / 200)
StubCount(kind, content) ==
    IF kind = "text" THEN Len(content) \div 4 ELSE Len(content) \div 200

\* a stub whose chat support fails with a plain failure
StubCreateChatSession_plainError(p, key, model) ==
    IF IsBlank(key) THEN validateApiKeyFailure(p)
    ELSE Err("Error", "Model name is required.")

\* a stub that tests the model before the key
StubCreateChatSession_modelFirst(p, key, model) ==
    IF model = "" THEN Err("Error", "Model name is required.")
    ELSE IF IsBlank(key) THEN validateApiKeyFailure(p)
    ELSE Err("NotImplementedError",
             "Chat session creation for " \o
             (IF p = "anthropic" THEN "Anthropic Claude" ELSE "OpenAI GPT") \o
             " models is not yet implemented.")

\* createChatSession of the stub providers never returns: the failure it raises
StubCreateChatSession(p, key, model) ==
    IF IsBlank(key) THEN validateApiKeyFailure(p)
    ELSE IF model = "" THEN Err("Error", "Model name is required.")
    ELSE Err("NotImplementedError",
             "Chat session creation for " \o
             (IF p = "anthropic" THEN "Anthropic Claude" ELSE "OpenAI GPT") \o
             " models is not yet implemented.")

\* sendMessageInChat of the stub providers ignores its arguments and never
\* returns: the failure it raises
StubSendMessageInChat(p, chatSession, messageContent, signalAborted) ==
    Err("NotImplementedError",
        "Sending chat messages for " \o
        (IF p = "anthropic" THEN "Anthropic Claude" ELSE "OpenAI GPT") \o
        " models is not yet implemented.")

NoStubCall == [provider |-> "", op |-> "", args |-> <<>>, outcome |-> Fail(Err("", ""))]

Call(p, op, key) == [provider |-> p, op |-> op, apiKey |-> key]

-----------------------------------------------------------------------------
(* Error classifier: routing.  The tests on a failure are tabulated over  *)
(* the failures the model's inputs can produce, so that each is computed   *)
(* once; a failure outside the table is an evaluation error.               *)

KnownFailures ==
    SdkErrors \cup ClassifyInputs
    \cup {handleApiError(raw, context) : raw \in SdkErrors, context \in WrapContexts}
    \cup {validateApiKeyFailure(p) : p \in LLM_PROVIDER_IDS}
    \cup {StubCreateChatSession(p, key, model) :
              p \in {"anthropic", "openai"}, key \in ApiKeys, model \in {"", "m"}}
    \cup {Err("Error", "Model name is required for Gemini API calls."),
          Err("Error", "Model name is required."),
          Err("Error", "PDF data is required for counting tokens."),
          Err("Error", "PDF data is required."),
          NoSdkFailure}

\* handleApiError, tabulated
WrappedFailureOf ==
    [raw \in SdkErrors, context \in WrapContexts |-> handleApiError(raw, context)]

CredentialRouteOf == [e \in KnownFailures |-> IsCredentialRoute(e)]
ChatCredentialFailureOf == [e \in KnownFailures |-> IsChatCredentialFailure(e)]

\* handleApiServiceError(e, operationContext): the new <<apiKeyError, error>>
ClassifiedBanners(e, operationContext, curApiKeyError, curError) ==
    IF CredentialRouteOf[e]
    THEN <<e.message, curError>>
    ELSE <<curApiKeyError, GenericBanner(e, operationContext)>>

handleApiServiceError(e, operationContext) ==
    /\ apiKeyError' = ClassifiedBanners(e, operationContext, apiKeyError, error)[1]
    /\ error' = ClassifiedBanners(e, operationContext, apiKeyError, error)[2]

NoFailure == [e |-> Err("", ""), operationContext |-> ""]

-----------------------------------------------------------------------------
(* Chat messages, payloads and the token ledger *)

\* ids: Date.now().toString() of the turn, and the same with "-model" appended
UserMessageId(t) == 2 * t - 1
ModelMessageId(t) == 2 * t

\* isStreaming / error left undefined by the code are falsy: FALSE
Msg(id, role, content, isStreaming) ==
    [id |-> id, role |-> role, content |-> content, isStreaming |-> isStreaming,
     error |-> FALSE]

InlineDataPart(mimeType, data) ==
    [type |-> "inlineData", mimeType |-> mimeType, data |-> data, text |-> ""]
TextPart(text) ==
    [type |-> "text", mimeType |-> "", data |-> "", text |-> text]

\* messageToSend: a raw string, or { parts: [...] }
RawPayload(text) == [kind |-> "string", text |-> text, parts |-> <<>>]
PartsPayload(parts) == [kind |-> "parts", text |-> "", parts |-> parts]
NoPayload == [kind |-> "none", text |-> "", parts |-> <<>>]

initialChatTokenDetails ==
    [lastTurnPromptTokens |-> 0, lastTurnCandidateTokens |-> 0,
     lastTurnTotalTokens |-> 0, lastTurnCachedInputTokens |-> 0,
     sessionPromptTokens |-> 0, sessionCandidateTokens |-> 0,
     sessionTotalTokens |-> 0, sessionCachedInputTokens |-> 0]

\* a reset that keeps a ledger that is already there
LedgerAtSessionCreation_keep(prevDetails) ==
    IF prevDetails = NullDetails THEN initialChatTokenDetails ELSE prevDetails

\* setTokenDetails({...initialChatTokenDetails}) after setSession
LedgerAtSessionCreation(prevDetails) == initialChatTokenDetails

\* prevDetails?.field || 0
PrevOrZero(prevDetails, field) ==
    IF prevDetails = NullDetails THEN 0 ELSE prevDetails[field]

\* the functional update of setTokenDetails at the end of a turn
CommitTurn(prevDetails, turnPromptTokens, turnCandidateTokens, turnCachedInputTokens) ==
    LET turnTotalTokens == turnPromptTokens + turnCandidateTokens IN
    [lastTurnPromptTokens |-> turnPromptTokens,
     lastTurnCandidateTokens |-> turnCandidateTokens,
     lastTurnTotalTokens |-> turnTotalTokens,
     lastTurnCachedInputTokens |-> turnCachedInputTokens,
     sessionPromptTokens |-> PrevOrZero(prevDetails, "sessionPromptTokens") + turnPromptTokens,
     sessionCandidateTokens |->
         PrevOrZero(prevDetails, "sessionCandidateTokens") + turnCandidateTokens,
     sessionTotalTokens |-> PrevOrZero(prevDetails, "sessionTotalTokens") + turnTotalTokens,
     sessionCachedInputTokens |->
         PrevOrZero(prevDetails, "sessionCachedInputTokens") + turnCachedInputTokens]

\* A response fragment: its text and its usageMetadata (a count of 0 stands for a
\* count that is absent or zero: the code tests the counts for truthiness).
Frag(text, p, c, k) ==
    [text |-> text, promptTokenCount |-> p, cachedContentTokenCount |-> c,
     candidatesTokenCount |-> k]

\* a prompt count that every reporting fragment overwrites
FoldPrompt_lastWins(turnPromptTokens, f) ==
    IF f.promptTokenCount # 0 THEN f.promptTokenCount ELSE turnPromptTokens

\* the usage fold of one fragment, one operator per turn-local counter
FoldPrompt(turnPromptTokens, f) ==
    IF f.promptTokenCount # 0 /\ turnPromptTokens = 0
    THEN f.promptTokenCount ELSE turnPromptTokens

FoldCached(turnCachedInputTokens, f) ==
    IF f.cachedContentTokenCount # 0 /\ turnCachedInputTokens = 0
    THEN f.cachedContentTokenCount ELSE turnCachedInputTokens

FoldCandidates(turnCandidateTokens, f) ==
    IF f.candidatesTokenCount # 0
    THEN turnCandidateTokens + f.candidatesTokenCount ELSE turnCandidateTokens

-----------------------------------------------------------------------------
(* History of a context, kept beside the program's state:                   *)
(*   committed     the sums of the lastTurn values of the turns committed    *)
(*                 since handleSendMessage last created the context's session*)
(*   priorNonZero  whether the ledger held a non-zero counter just before    *)
(*                 that session was created                                   *)
(*   resend        <<old, new>> when turn new was sent right after the user  *)
(*                 cancelled the in-flight turn old, and nothing else has    *)
(*                 disturbed the two turns since; else NoResend              *)

ZeroSums == [prompt |-> 0, candidate |-> 0, total |-> 0, cached |-> 0]
NoResend == <<0, 0>>
NoHistory == [committed |-> ZeroSums, priorNonZero |-> FALSE, resend |-> NoResend]

LedgerFields == {"lastTurnPromptTokens", "lastTurnCandidateTokens", "lastTurnTotalTokens",
                 "lastTurnCachedInputTokens", "sessionPromptTokens",
                 "sessionCandidateTokens", "sessionTotalTokens",
                 "sessionCachedInputTokens"}

HasNonZero(details) ==
    details # NullDetails /\ \E f \in LedgerFields : details[f] # 0

AddLastTurn(sums, details) ==
    [prompt |-> sums.prompt + details.lastTurnPromptTokens,
     candidate |-> sums.candidate + details.lastTurnCandidateTokens,
     total |-> sums.total + details.lastTurnTotalTokens,
     cached |-> sums.cached + details.lastTurnCachedInputTokens]

\* the history of a context whose chat state a handler clears
AfterReset(h) == [h EXCEPT !.resend = NoResend]

-----------------------------------------------------------------------------
(* Turns: the invocations of handleSendMessage that reach the Gemini chat logic *)

TurnIds == 1..MaxTurns

IdleTurn ==
    [pc |-> "idle", ctx |-> "text", modelMessageId |-> 0,
     turnPromptTokens |-> 0, turnCandidateTokens |-> 0, turnCachedInputTokens |-> 0,
     frags |-> <<>>, payload |-> NoPayload, priorUserMessages |-> 0,
     createdSession |-> FALSE]

InFlight(t) == turns[t].pc \in {"sending", "streaming"}

\* what is kept of a turn that has ended: its context
DoneTurn(c) == [IdleTurn EXCEPT !.pc = "done", !.ctx = c]

-----------------------------------------------------------------------------
(* handleSendMessage: the catch block *)

\* an annotation that only clears the streaming flag
MarkCancelled_noSuffix(m) ==
    [m EXCEPT !.isStreaming = FALSE]

MarkCancelled(m) ==
    [m EXCEPT !.isStreaming = FALSE, !.content = m.content \o " [cancelled]"]

MarkError(m) ==
    [m EXCEPT !.isStreaming = FALSE, !.error = TRUE, !.content = m.content \o " [Error]"]

\* a catch block that removes the turn's messages on every failure but an abort
CaughtMessages_dropAlways(msgs, uid, mid, e) ==
    IF e.name = "AbortError"
    THEN [i \in 1..Len(msgs) |-> IF msgs[i].id = (IF mid # 0 THEN mid ELSE uid)
                                       /\ msgs[i].isStreaming
                                 THEN MarkCancelled(msgs[i]) ELSE msgs[i]]
    ELSE SelectSeq(msgs, LAMBDA m : m.id # uid /\ m.id # mid)

\* the message sequence after the catch block; mid = 0 when modelMessageId is null
CaughtMessages(msgs, uid, mid, e) ==
    LET target == IF mid # 0 THEN mid ELSE uid IN
    IF e.name = "AbortError"
    THEN [i \in 1..Len(msgs) |-> IF msgs[i].id = target /\ msgs[i].isStreaming
                                 THEN MarkCancelled(msgs[i]) ELSE msgs[i]]
    ELSE IF ChatCredentialFailureOf[e]
    THEN SelectSeq(msgs, LAMBDA m : m.id # uid /\ m.id # mid)
    ELSE [i \in 1..Len(msgs) |->
             IF msgs[i].id = target /\ msgs[i].isStreaming THEN MarkError(msgs[i])
             ELSE IF msgs[i].id = uid /\ mid = 0 THEN [msgs[i] EXCEPT !.error = TRUE]
             ELSE msgs[i]]

ChatOperationContext(c) == "send " \o c \o " chat message"

\* <<apiKeyError, error, chat error slot>> after the catch block
CaughtBanners(e, c, curApiKeyError, curError, curChatError) ==
    IF e.name = "AbortError"
    THEN <<curApiKeyError, curError, curChatError>>
    ELSE IF ChatCredentialFailureOf[e]
    THEN <<ClassifiedBanners(e, ChatOperationContext(c), curApiKeyError, curError)[1],
           ClassifiedBanners(e, ChatOperationContext(c), curApiKeyError, curError)[2],
           curChatError>>
    ELSE <<curApiKeyError, curError,
           "Failed to get chat response: " \o ErrorMessageOf(e)>>

-----------------------------------------------------------------------------
(* handleSendMessage: entry guard *)

RequiredKeyBanner ==
    "API Key for " \o ProviderName(selectedProvider)
        \o " is required. Please enter it above to proceed."

\* a credential check that misses a whitespace-only key
commonApiCallChecks_noTrim == apiKey # ""

\* the value commonApiCallChecks returns
commonApiCallChecks == ~IsBlank(apiKey)

\* commonApiCallChecks fails: the credential banner and the context's slot are set
SendBlankKey(message, c) ==
    /\ pendingEffects = <<>>
    /\ ~commonApiCallChecks
    /\ apiKeyError' = RequiredKeyBanner
    /\ chatError' = [chatError EXCEPT ![c] =
           "API Key is required to start chat. Please enter it above and ensure it's valid."]
    /\ invoked' = {}
    /\ UNCHANGED <<selectionVars, contentVars, countVars, error, session, messages,
                   loading, tokenDetails, abortRef, aborted, turns, nTurns, history,
                   pendingEffects, unitVars>>

\* a provider other than google: createChatSession of the stub is probed
SendUnsupported(message, c) ==
    /\ pendingEffects = <<>>
    /\ commonApiCallChecks
    /\ selectedProvider # "google"
    /\ LET e == StubCreateChatSession(selectedProvider, apiKey, selectedModel)
           name == ProviderName(selectedProvider)
           banners == ClassifiedBanners(e, "initialize chat for " \o name, Null, error)
       IN
       /\ invoked' = {Call(selectedProvider, "createChatSession", apiKey)}
       /\ IF e.name = "NotImplementedError"
          THEN /\ chatError' = [chatError EXCEPT ![c] =
                      "Chat is currently only supported for Google Gemini. Support for "
                          \o name \o " is coming soon."]
               /\ apiKeyError' = Null
               /\ error' = error
          ELSE /\ apiKeyError' = banners[1]
               /\ error' = banners[2]
               \* apiKeyError and error here are the values of the handler's closure
               /\ chatError' = [chatError EXCEPT ![c] =
                      IF Truthy(apiKeyError) THEN apiKeyError
                      ELSE IF Truthy(error) THEN error
                      ELSE "Could not initialize chat for " \o name \o ": " \o e.message]
    /\ UNCHANGED <<selectionVars, contentVars, countVars, session, messages,
                   loading, tokenDetails, abortRef, aborted, turns, nTurns, history,
                   pendingEffects, unitVars>>

-----------------------------------------------------------------------------
(* handleSendMessage: the Gemini chat logic up to the call of sendMessageInChat *)

\* geminiService.createChatSession, where sdk is what ai.chats.create does:
\* NoSdkFailure when it returns, else the failure it raises
GeminiCreateChatSession(key, model, sdk) ==
    IF IsBlank(key) THEN Fail(validateApiKeyFailure("google"))
    ELSE IF IsBlank(model)
         THEN Fail(Err("Error", "Model name is required for Gemini API calls."))
    ELSE IF sdk = NoSdkFailure THEN Ok(0)
    ELSE Fail(WrappedFailureOf[sdk, "creating chat session"])

CountUserMessages(msgs) == Len(SelectSeq(msgs, LAMBDA m : m.role = "user"))

\* userMessagesSoFar.length <= 1 && (!getSession() || getSession() === currentSession):
\* currentSession is getSession() when that is non-null, so the second conjunct is true
isFirstMeaningfulMessageInSession(userMessagesSoFar) == userMessagesSoFar <= 1

TextFirstPayload(currentStoryText, message) ==
    "Contextual Text:\n\"\"\"\n" \o currentStoryText \o "\n\"\"\"\n\nUser Query: " \o message

\* a payload whose first turn of a PDF context carries the query before the document
BuildPayload_queryFirst(c, isFirst, contextData, message) ==
    IF c = "text"
    THEN IF isFirst THEN RawPayload(TextFirstPayload(contextData, message))
         ELSE RawPayload(message)
    ELSE IF isFirst
         THEN PartsPayload(<<TextPart("User Query about the PDF: " \o message),
                             InlineDataPart("application/pdf", contextData)>>)
         ELSE RawPayload(message)

\* messageToSend
BuildPayload(c, isFirst, contextData, message) ==
    IF c = "text"
    THEN IF isFirst THEN RawPayload(TextFirstPayload(contextData, message))
         ELSE RawPayload(message)
    ELSE IF isFirst
         THEN PartsPayload(<<InlineDataPart("application/pdf", contextData),
                             TextPart("User Query about the PDF: " \o message)>>)
         ELSE RawPayload(message)

\* getContextData()
ContextData(c) == IF c = "text" THEN storyText ELSE pdfBase64Data

ContentMissing(c) ==
    IF c = "text" THEN ~Truthy(storyText) \/ IsBlank(storyText)
    ELSE ~Truthy(pdfBase64Data)

ContentMissingError(c) ==
    IF c = "text" THEN "Please enter some story text to chat about."
    ELSE "PDF data is not available for chat. Please re-upload if necessary."

\* sdk is what the SDK does when the session is created (used only when the
\* context has no session)
SendGoogle(message, c, sdk) ==
    /\ pendingEffects = <<>>
    /\ commonApiCallChecks
    /\ selectedProvider = "google"
    /\ nTurns < MaxTurns
    /\ session[c] # 0 => sdk = NoSdkFailure
    /\ LET t == nTurns + 1
           r == GeminiCreateChatSession(apiKey, selectedModel, sdk)
           uid == UserMessageId(t)
           needCreate == session[c] = 0
           created == needCreate /\ r.ok
           failed == needCreate /\ ~r.ok
           rejected == ~failed /\ ContentMissing(c)
           issued == ~failed /\ ~ContentMissing(c)
           prior == CountUserMessages(messages[c])
           isFirst == isFirstMeaningfulMessageInSession(prior)
           appended == Append(messages[c], Msg(uid, "user", message, FALSE))
           caught == CaughtBanners(r.e, c, Null, error, Null)
       IN
       /\ nTurns' = t
       /\ aborted' = IF abortRef[c] # 0 THEN aborted \cup {abortRef[c]} ELSE aborted
       /\ session' = IF created THEN [session EXCEPT ![c] = t] ELSE session
       /\ tokenDetails' = IF created
                          THEN [tokenDetails EXCEPT ![c] = LedgerAtSessionCreation(@)]
                          ELSE tokenDetails
       /\ messages' = [messages EXCEPT ![c] =
              IF failed THEN CaughtMessages(appended, uid, 0, r.e)
              ELSE IF rejected THEN SelectSeq(appended, LAMBDA m : m.id # uid)
              ELSE appended]
       /\ loading' = [loading EXCEPT ![c] = issued]
       /\ abortRef' = [abortRef EXCEPT ![c] = IF issued THEN t ELSE 0]
       /\ apiKeyError' = IF failed THEN caught[1] ELSE Null
       /\ error' = IF failed THEN caught[2] ELSE error
       /\ chatError' = [chatError EXCEPT ![c] =
              IF failed THEN caught[3]
              ELSE IF rejected THEN ContentMissingError(c)
              ELSE Null]
       /\ turns' = [turns EXCEPT ![t] =
              IF issued
              THEN [IdleTurn EXCEPT
                      !.pc = "sending",
                      !.ctx = c,
                      !.payload = BuildPayload(c, isFirst, ContextData(c), message),
                      !.priorUserMessages = prior,
                      !.createdSession = created]
              ELSE DoneTurn(c)]
       /\ history' = [history EXCEPT ![c] =
              [committed |-> IF created THEN ZeroSums ELSE @.committed,
               priorNonZero |-> IF created THEN HasNonZero(tokenDetails[c])
                                ELSE @.priorNonZero,
               resend |-> IF issued /\ abortRef[c] # 0 /\ abortRef[c] \in aborted
                          THEN <<abortRef[c], t>> ELSE NoResend]]
       /\ invoked' =
              (IF needCreate THEN {Call("google", "createChatSession", apiKey)} ELSE {})
              \cup (IF issued THEN {Call("google", "sendMessageInChat", apiKey)} ELSE {})
    /\ UNCHANGED <<selectionVars, contentVars, countVars, pendingEffects, unitVars>>

handleSendMessage(message, c, sdk) ==
    \/ SendBlankKey(message, c)
    \/ SendUnsupported(message, c)
    \/ SendGoogle(message, c, sdk)

-----------------------------------------------------------------------------
(* handleSendMessage: after the call of sendMessageInChat *)

\* a finally block that ends the loading of every context
Finally_allContexts(t) ==
    /\ loading' = [c \in Contexts |-> FALSE]
    /\ abortRef' = [c \in Contexts |-> 0]
    /\ turns' = [turns EXCEPT ![t] = DoneTurn(turns[t].ctx)]
    /\ aborted' = aborted \ {t}

\* a finally block that leaves the loading flag as it is
Finally_keepLoading(t) ==
    /\ loading' = loading
    /\ abortRef' = [abortRef EXCEPT ![turns[t].ctx] = 0]
    /\ turns' = [turns EXCEPT ![t] = DoneTurn(turns[t].ctx)]
    /\ aborted' = aborted \ {t}

\* the finally block of turn t, and the turn's end; the turn's controller is
\* unreachable from then on and is dropped from the set of aborted controllers
Finally(t) ==
    /\ loading' = [loading EXCEPT ![turns[t].ctx] = FALSE]
    /\ abortRef' = [abortRef EXCEPT ![turns[t].ctx] = 0]
    /\ turns' = [turns EXCEPT ![t] = DoneTurn(turns[t].ctx)]
    /\ aborted' = aborted \ {t}

\* sendMessageInChat returned the stream: the model placeholder is appended
SendResolved(t) ==
    /\ turns[t].pc = "sending"
    /\ messages' = [messages EXCEPT ![turns[t].ctx] =
           Append(@, Msg(ModelMessageId(t), "model", "", TRUE))]
    /\ turns' = [turns EXCEPT ![t].pc = "streaming",
                              ![t].modelMessageId = ModelMessageId(t)]
    /\ invoked' = {}
    /\ UNCHANGED <<selectionVars, contentVars, countVars, error, apiKeyError, session,
                   loading, chatError, tokenDetails, abortRef, aborted, nTurns, history,
                   pendingEffects, unitVars>>

\* the catch block and the finally block, for a failure e raised after an await
TurnFails(t, e) ==
    LET c == turns[t].ctx
        caught == CaughtBanners(e, c, apiKeyError, error, chatError[c])
    IN
    /\ messages' = [messages EXCEPT ![c] =
           CaughtMessages(@, UserMessageId(t), turns[t].modelMessageId, e)]
    /\ apiKeyError' = caught[1]
    /\ error' = caught[2]
    /\ chatError' = [chatError EXCEPT ![c] = caught[3]]
    /\ history' = [history EXCEPT ![c].resend =
           IF t \in {@[1], @[2]} THEN NoResend ELSE @]
    /\ Finally(t)
    /\ invoked' = {}
    /\ UNCHANGED <<selectionVars, contentVars, countVars, session, tokenDetails,
                   nTurns, pendingEffects, unitVars>>

\* what geminiService.sendMessageInChat raises for an SDK failure: an AbortError is
\* rethrown as it is, any other failure goes through handleApiError
SendMessageInChatFailure(raw) ==
    IF raw.name = "AbortError" THEN raw ELSE WrappedFailureOf[raw, "sending chat message"]

SendRejected(t, raw) ==
    /\ turns[t].pc = "sending"
    /\ TurnFails(t, SendMessageInChatFailure(raw))

\* the statements after the for-await loop: the ledger turn is committed
AfterLoop(t, msgs) ==
    LET c == turns[t].ctx IN
    /\ messages' = [messages EXCEPT ![c] =
           [i \in 1..Len(msgs) |-> IF msgs[i].id = turns[t].modelMessageId
                                   THEN [msgs[i] EXCEPT !.isStreaming = FALSE]
                                   ELSE msgs[i]]]
    /\ tokenDetails' = [tokenDetails EXCEPT ![c] =
           CommitTurn(@, turns[t].turnPromptTokens, turns[t].turnCandidateTokens,
                      turns[t].turnCachedInputTokens)]
    /\ history' = [history EXCEPT ![c].committed = AddLastTurn(@, tokenDetails'[c])]
    /\ Finally(t)

\* one fragment arrives from the stream
Chunk(t, f) ==
    /\ turns[t].pc = "streaming"
    /\ LET c == turns[t].ctx IN
       IF t \in aborted
       THEN \* signal.aborted: annotate, break, and run the statements after the loop
            /\ AfterLoop(t, [i \in 1..Len(messages[c]) |->
                                 IF messages[c][i].id = turns[t].modelMessageId
                                 THEN MarkCancelled(messages[c][i]) ELSE messages[c][i]])
       ELSE /\ messages' = [messages EXCEPT ![c] =
                   [i \in 1..Len(messages[c]) |->
                       IF messages[c][i].id = turns[t].modelMessageId
                       THEN [messages[c][i] EXCEPT !.content = @ \o f.text]
                       ELSE messages[c][i]]]
            /\ turns' = [turns EXCEPT
                   ![t].turnPromptTokens = FoldPrompt(@, f),
                   ![t].turnCachedInputTokens = FoldCached(@, f),
                   ![t].turnCandidateTokens = FoldCandidates(@, f),
                   ![t].frags = Append(@, f)]
            /\ UNCHANGED <<tokenDetails, loading, abortRef, aborted, history>>
    /\ invoked' = {}
    /\ UNCHANGED <<selectionVars, contentVars, countVars, error, apiKeyError, session,
                   chatError, nTurns, pendingEffects, unitVars>>

\* the stream ends
StreamEnd(t) ==
    /\ turns[t].pc = "streaming"
    /\ AfterLoop(t, messages[turns[t].ctx])
    /\ invoked' = {}
    /\ UNCHANGED <<selectionVars, contentVars, countVars, error, apiKeyError, session,
                   chatError, nTurns, pendingEffects, unitVars>>

\* the stream raises while it is consumed (the failure is not wrapped)
StreamThrow(t, raw) ==
    /\ turns[t].pc = "streaming"
    /\ TurnFails(t, raw)

\* onCancel of a ChatBox, offered while the context's loading flag is rendered true
Cancel(c) ==
    /\ pendingEffects = <<>>
    /\ loading[c]
    /\ abortRef[c] # 0
    /\ abortRef[c] \notin aborted
    /\ aborted' = aborted \cup {abortRef[c]}
    /\ history' = [history EXCEPT ![c].resend =
           IF @[2] = abortRef[c] THEN NoResend ELSE @]
    /\ invoked' = {}
    /\ UNCHANGED <<selectionVars, contentVars, countVars, error, apiKeyError, session,
                   messages, loading, chatError, tokenDetails, abortRef, turns, nTurns,
                   pendingEffects, unitVars>>

-----------------------------------------------------------------------------
(* Selection changes and the reset effects *)

\* a reset that clears the text context only
resetChatStates_textOnly ==
    /\ session' = [session EXCEPT !["text"] = 0]
    /\ messages' = [messages EXCEPT !["text"] = <<>>]
    /\ chatError' = [chatError EXCEPT !["text"] = Null]
    /\ tokenDetails' = [tokenDetails EXCEPT !["text"] = NullDetails]
    /\ aborted' = aborted \cup {abortRef[c] : c \in {x \in Contexts : abortRef[x] # 0}}
    /\ abortRef' = [c \in Contexts |-> 0]
    /\ history' = [c \in Contexts |-> AfterReset(history[c])]

resetChatStates ==
    /\ session' = [c \in Contexts |-> 0]
    /\ messages' = [c \in Contexts |-> <<>>]
    /\ chatError' = [c \in Contexts |-> Null]
    /\ tokenDetails' = [c \in Contexts |-> NullDetails]
    /\ aborted' = aborted \cup {abortRef[c] : c \in {x \in Contexts : abortRef[x] # 0}}
    /\ abortRef' = [c \in Contexts |-> 0]
    /\ history' = [c \in Contexts |-> AfterReset(history[c])]

resetCountsAndError ==
    /\ tokenCount' = [k \in Kinds |-> NoCount]
    /\ error' = Null
    /\ resetChatStates

\* the effects whose dependencies include the changed state, in declaration order
EffectsFor(changed) ==
    (IF changed \in {"selectedProvider", "apiKey"} THEN <<"provider">> ELSE <<>>)
    \o (IF changed \in {"selectedModel", "apiKey"} THEN <<"model">> ELSE <<>>)

handleProviderChange(newProvider) ==
    /\ pendingEffects = <<>>
    /\ newProvider # selectedProvider
    /\ selectedProvider' = newProvider
    /\ pendingEffects' = EffectsFor("selectedProvider")
    /\ invoked' = {}
    /\ UNCHANGED <<apiKey, selectedModel, contentVars, countVars, error, apiKeyError,
                   chatVars, unitVars>>

handleModelChange(newModel) ==
    /\ pendingEffects = <<>>
    /\ newModel # selectedModel
    /\ selectedModel' = newModel
    /\ pendingEffects' = EffectsFor("selectedModel")
    /\ invoked' = {}
    /\ UNCHANGED <<selectedProvider, apiKey, contentVars, countVars, error, apiKeyError,
                   chatVars, unitVars>>

handleApiKeyChange(newApiKey) ==
    /\ pendingEffects = <<>>
    /\ newApiKey # apiKey
    /\ apiKey' = newApiKey
    /\ apiKeyError' = IF ~IsBlank(newApiKey) THEN Null ELSE apiKeyError
    /\ pendingEffects' = EffectsFor("apiKey")
    /\ invoked' = {}
    /\ UNCHANGED <<selectedProvider, selectedModel, contentVars, countVars, error,
                   chatVars, unitVars>>

\* useEffect(..., [selectedProvider, resetCountsAndError, apiKey])
ProviderEffect ==
    /\ pendingEffects # <<>>
    /\ Head(pendingEffects) = "provider"
    /\ resetCountsAndError
    /\ selectedModel' = AVAILABLE_MODELS_BY_PROVIDER(selectedProvider)[1]
    /\ apiKeyError' = IF ~IsBlank(apiKey) THEN Null ELSE apiKeyError
    \* setSelectedModel schedules the model effect when the model changes
    /\ pendingEffects' =
           IF selectedModel' # selectedModel /\ Tail(pendingEffects) = <<>>
           THEN <<"model">> ELSE Tail(pendingEffects)
    /\ invoked' = {}
    /\ UNCHANGED <<selectedProvider, apiKey, contentVars, isLoadingCount, countOps, pdfReads,
                   loading, turns, nTurns, unitVars>>

\* useEffect(..., [selectedModel, apiKey, resetCountsAndError])
ModelEffect ==
    /\ pendingEffects # <<>>
    /\ Head(pendingEffects) = "model"
    /\ resetCountsAndError
    /\ apiKeyError' = IF ~IsBlank(apiKey) THEN Null ELSE apiKeyError
    /\ pendingEffects' = Tail(pendingEffects)
    /\ invoked' = {}
    /\ UNCHANGED <<selectionVars, contentVars, isLoadingCount, countOps, pdfReads,
                   loading, turns, nTurns, unitVars>>

-----------------------------------------------------------------------------
(* Initial state: the state after construction (useState initial values) *)

AppInit ==
    /\ selectedProvider = "google"
    /\ apiKey = ""
    /\ selectedModel = AVAILABLE_MODELS_BY_PROVIDER("google")[1]
    /\ storyText = ""
    /\ pdfFile = 0
    /\ pdfBase64Data = Null
    /\ tokenCount = [k \in Kinds |-> NoCount]
    /\ isLoadingCount = [k \in Kinds |-> FALSE]
    /\ error = Null
    /\ apiKeyError = Null
    /\ session = [c \in Contexts |-> 0]
    /\ messages = [c \in Contexts |-> <<>>]
    /\ loading = [c \in Contexts |-> FALSE]
    /\ chatError = [c \in Contexts |-> Null]
    /\ tokenDetails = [c \in Contexts |-> NullDetails]
    /\ abortRef = [c \in Contexts |-> 0]
    /\ aborted = {}
    /\ turns = [t \in TurnIds |-> IdleTurn]
    /\ nTurns = 0
    /\ history = [c \in Contexts |-> NoHistory]
    /\ countOps = <<>>
    /\ pdfReads = {}
    /\ invoked = {}
    /\ pendingEffects = <<>>
    /\ classified = NoFailure
    /\ stubCall = NoStubCall

-----------------------------------------------------------------------------
(* Content changes *)

handleTextChange(newText) ==
    /\ pendingEffects = <<>>
    /\ newText # storyText
    /\ storyText' = newText
    /\ tokenCount' = [tokenCount EXCEPT !["text"] = NoCount]
    /\ error' = Null
    /\ IF session["text"] # 0
       THEN /\ session' = [session EXCEPT !["text"] = 0]
            /\ messages' = [messages EXCEPT !["text"] = <<>>]
            /\ chatError' = [chatError EXCEPT !["text"] = Null]
            /\ tokenDetails' = [tokenDetails EXCEPT !["text"] = NullDetails]
            /\ history' = [history EXCEPT !["text"] = AfterReset(@)]
       ELSE UNCHANGED <<session, messages, chatError, tokenDetails, history>>
    /\ invoked' = {}
    /\ UNCHANGED <<selectionVars, pdfFile, pdfBase64Data, isLoadingCount, countOps, pdfReads,
                   apiKeyError, loading, abortRef, aborted, turns, nTurns,
                   pendingEffects, unitVars>>

\* a PDF file is chosen: the state is set and fileToBase64 is awaited; hadSession
\* is pdfChatSession as the handler's closure sees it when the read has ended
handlePdfChange(file) ==
    /\ pendingEffects = <<>>
    /\ pdfFile' = file
    /\ tokenCount' = [tokenCount EXCEPT !["pdf"] = NoCount]
    /\ error' = Null
    /\ pdfReads' = pdfReads \cup {[file |-> file, hadSession |-> session["pdf"] # 0]}
    /\ invoked' = {}
    /\ UNCHANGED <<selectionVars, storyText, pdfBase64Data, isLoadingCount, countOps,
                   apiKeyError, chatVars, pendingEffects, unitVars>>

\* a file that is not a PDF is chosen
handleNonPdfChange ==
    /\ pendingEffects = <<>>
    /\ error' = "Please upload a valid PDF file."
    /\ pdfFile' = 0
    /\ pdfBase64Data' = Null
    /\ invoked' = {}
    /\ UNCHANGED <<selectionVars, storyText, countVars, apiKeyError, chatVars,
                   pendingEffects, unitVars>>

\* the rest of handlePdfChange, after the await; ok: whether the read succeeded
PdfReadEnds(read, ok) ==
    /\ read \in pdfReads
    /\ pdfReads' = pdfReads \ {read}
    /\ pdfBase64Data' = IF ok THEN Base64Of(read.file) ELSE Null
    /\ error' = IF ok THEN error ELSE "Failed to read PDF for chat context."
    /\ IF read.hadSession
       THEN /\ session' = [session EXCEPT !["pdf"] = 0]
            /\ messages' = [messages EXCEPT !["pdf"] = <<>>]
            /\ chatError' = [chatError EXCEPT !["pdf"] = Null]
            /\ tokenDetails' = [tokenDetails EXCEPT !["pdf"] = NullDetails]
            /\ history' = [history EXCEPT !["pdf"] = AfterReset(@)]
       ELSE UNCHANGED <<session, messages, chatError, tokenDetails, history>>
    /\ invoked' = {}
    /\ UNCHANGED <<selectionVars, storyText, pdfFile, tokenCount, isLoadingCount,
                   countOps, apiKeyError, loading, abortRef, aborted, turns, nTurns,
                   pendingEffects, unitVars>>

-----------------------------------------------------------------------------
(* Token counting: analyzeTextTokens and analyzePdfTokens *)

CountOperationContext(kind) ==
    IF kind = "text" THEN "analyze text tokens" ELSE "analyze PDF tokens"

CountOpName(kind) == IF kind = "text" THEN "countTokensForText" ELSE "countTokensForPdf"

CountWrapContext(kind) ==
    IF kind = "text" THEN "counting text tokens" ELSE "counting PDF tokens"

\* the early return for missing content
CountContentMissing(kind) == IF kind = "text" THEN IsBlank(storyText) ELSE pdfFile = 0

CountContentMissingError(kind) ==
    IF kind = "text" THEN "Please enter some story text to analyze."
    ELSE "Please upload a PDF file to analyze."

\* what reader.onerror rejects with: an event, with neither a name nor a message
ReadErrorEvent == Err("", "")

CountOp(kind, stage, p, key, model, file) ==
    [kind |-> kind, stage |-> stage, provider |-> p, apiKey |-> key, model |-> model,
     file |-> file]

RemoveAt(seq, i) == SubSeq(seq, 1, i - 1) \o SubSeq(seq, i + 1, Len(seq))

\* The switch over the provider inside the try block, up to the adapter's first
\* await: the stub adapters answer at once, the Gemini adapter awaits the SDK
\* (pending).  A failure of the adapter's checks goes to the catch block.
CountOutcome(kind, p, key, model, content, curCount, curApiKeyError, curError) ==
    LET pre == CountPrecheck(p, kind, key, model, content)
        banners == ClassifiedBanners(pre, CountOperationContext(kind),
                                     curApiKeyError, curError)
    IN
    IF pre # NoPrecheckFailure
    THEN [count |-> curCount, loading |-> FALSE, apiKeyError |-> banners[1],
          error |-> banners[2], pending |-> FALSE]
    ELSE IF p # "google"
    THEN [count |-> StubCount(kind, content), loading |-> FALSE,
          apiKeyError |-> curApiKeyError, error |-> curError, pending |-> FALSE]
    ELSE [count |-> curCount, loading |-> TRUE, apiKeyError |-> curApiKeyError,
          error |-> curError, pending |-> TRUE]

\* analyzeTextTokens (kind = "text") and analyzePdfTokens (kind = "pdf"), up to the
\* first await that does not resolve at once.  The button that calls it is disabled
\* while the kind's loading flag is set (lines 576 and 629).
analyzeTokens(kind) ==
    /\ pendingEffects = <<>>
    /\ ~isLoadingCount[kind]
    /\ IF ~commonApiCallChecks
       THEN /\ tokenCount' = [tokenCount EXCEPT ![kind] = NoCount]
            /\ error' = Null
            /\ apiKeyError' = RequiredKeyBanner
            /\ isLoadingCount' = [isLoadingCount EXCEPT ![kind] = FALSE]
            /\ invoked' = {}
            /\ UNCHANGED <<countOps, pdfBase64Data>>
       ELSE IF CountContentMissing(kind)
       THEN /\ tokenCount' = [tokenCount EXCEPT ![kind] = NoCount]
            /\ error' = CountContentMissingError(kind)
            /\ apiKeyError' = Null
            /\ isLoadingCount' = [isLoadingCount EXCEPT ![kind] = FALSE]
            /\ invoked' = {}
            /\ UNCHANGED <<countOps, pdfBase64Data>>
       ELSE IF kind = "pdf" /\ ~Truthy(pdfBase64Data)
       THEN \* await fileToBase64(pdfFile)
            /\ tokenCount' = [tokenCount EXCEPT ![kind] = NoCount]
            /\ error' = Null
            /\ apiKeyError' = Null
            /\ isLoadingCount' = [isLoadingCount EXCEPT ![kind] = TRUE]
            /\ countOps' = Append(countOps, CountOp(kind, "reading", selectedProvider,
                                                    apiKey, selectedModel, pdfFile))
            /\ invoked' = {}
            /\ UNCHANGED pdfBase64Data
       ELSE LET out == CountOutcome(kind, selectedProvider, apiKey, selectedModel,
                                    IF kind = "text" THEN storyText ELSE pdfBase64Data,
                                    NoCount, Null, Null)
            IN
            /\ tokenCount' = [tokenCount EXCEPT ![kind] = out.count]
            /\ error' = out.error
            /\ apiKeyError' = out.apiKeyError
            /\ isLoadingCount' = [isLoadingCount EXCEPT ![kind] = out.loading]
            /\ countOps' = IF out.pending
                           THEN Append(countOps, CountOp(kind, "counting", selectedProvider,
                                                         apiKey, selectedModel, pdfFile))
                           ELSE countOps
            /\ invoked' = {Call(selectedProvider, CountOpName(kind), apiKey)}
            /\ UNCHANGED pdfBase64Data
    /\ UNCHANGED <<selectionVars, storyText, pdfFile, pdfReads, chatVars, pendingEffects,
                   unitVars>>

\* analyzePdfTokens after its own fileToBase64: the values are those of the closure
CountReadEnds(i, ok) ==
    /\ i \in 1..Len(countOps)
    /\ countOps[i].stage = "reading"
    /\ LET op == countOps[i]
           out == CountOutcome("pdf", op.provider, op.apiKey, op.model, Base64Of(op.file),
                               tokenCount["pdf"], apiKeyError, error)
           banners == ClassifiedBanners(ReadErrorEvent, CountOperationContext("pdf"),
                                        apiKeyError, error)
       IN
       IF ok
       THEN /\ pdfBase64Data' = Base64Of(op.file)
            /\ tokenCount' = [tokenCount EXCEPT !["pdf"] = out.count]
            /\ error' = out.error
            /\ apiKeyError' = out.apiKeyError
            /\ isLoadingCount' = [isLoadingCount EXCEPT !["pdf"] = out.loading]
            /\ countOps' = IF out.pending
                           THEN [countOps EXCEPT ![i].stage = "counting"]
                           ELSE RemoveAt(countOps, i)
            /\ invoked' = {Call(op.provider, CountOpName("pdf"), op.apiKey)}
       ELSE /\ apiKeyError' = banners[1]
            /\ error' = banners[2]
            /\ isLoadingCount' = [isLoadingCount EXCEPT !["pdf"] = FALSE]
            /\ countOps' = RemoveAt(countOps, i)
            /\ invoked' = {}
            /\ UNCHANGED <<pdfBase64Data, tokenCount>>
    /\ UNCHANGED <<selectionVars, storyText, pdfFile, pdfReads, chatVars, pendingEffects,
                   unitVars>>

\* the Gemini SDK answers a count with n
CountResolved(i, n) ==
    /\ i \in 1..Len(countOps)
    /\ countOps[i].stage = "counting"
    /\ tokenCount' = [tokenCount EXCEPT ![countOps[i].kind] = n]
    /\ isLoadingCount' = [isLoadingCount EXCEPT ![countOps[i].kind] = FALSE]
    /\ countOps' = RemoveAt(countOps, i)
    /\ invoked' = {}
    /\ UNCHANGED <<selectionVars, contentVars, pdfReads, error, apiKeyError, chatVars,
                   pendingEffects, unitVars>>

\* the Gemini SDK raises raw: the adapter wraps it and the catch block classifies it
CountRejected(i, raw) ==
    /\ i \in 1..Len(countOps)
    /\ countOps[i].stage = "counting"
    /\ handleApiServiceError(WrappedFailureOf[raw, CountWrapContext(countOps[i].kind)],
                             CountOperationContext(countOps[i].kind))
    /\ isLoadingCount' = [isLoadingCount EXCEPT ![countOps[i].kind] = FALSE]
    /\ countOps' = RemoveAt(countOps, i)
    /\ invoked' = {}
    /\ UNCHANGED <<selectionVars, contentVars, pdfReads, tokenCount, chatVars,
                   pendingEffects, unitVars>>

-----------------------------------------------------------------------------
(* The token-count specification: selection and content changes, and the   *)
(* two analyze operations with their completions.                           *)

\* the inputs of the token-count specification
CountStoryTexts == {"", "tale"}
CountPdfFiles == {1}
CountModels(p) == {AVAILABLE_MODELS_BY_PROVIDER(p)[i] :
                      i \in 1..(IF Len(AVAILABLE_MODELS_BY_PROVIDER(p)) > 1 THEN 2 ELSE 1)}
CountSdkErrors == {SdkAbort, Err("Error", "Quota exceeded")}

NextCount ==
    \/ \E k \in ApiKeys : handleApiKeyChange(k)
    \/ \E s \in CountStoryTexts : handleTextChange(s)
    \/ \E f \in CountPdfFiles : handlePdfChange(f)
    \/ handleNonPdfChange
    \/ \E read \in pdfReads, ok \in BOOLEAN : PdfReadEnds(read, ok)
    \/ \E p \in LLM_PROVIDER_IDS : handleProviderChange(p)
    \/ \E m \in CountModels(selectedProvider) : handleModelChange(m)
    \/ ProviderEffect
    \/ ModelEffect
    \/ \E kind \in Kinds : analyzeTokens(kind)
    \/ \E i \in 1..Len(countOps), ok \in BOOLEAN : CountReadEnds(i, ok)
    \/ \E i \in 1..Len(countOps), n \in GeminiCounts : CountResolved(i, n)
    \/ \E i \in 1..Len(countOps), raw \in CountSdkErrors : CountRejected(i, raw)

SpecCount == AppInit /\ [][NextCount]_vars

CountCalls == {call \in invoked : call.op \in {"countTokensForText", "countTokensForPdf"}}

\* C1: whenever analyzeTextTokens or analyzePdfTokens runs while the credential is
\* blank (empty or whitespace only), whatever the provider, model and content, the
\* provider's countTokensForText / countTokensForPdf is not invoked (neither in the
\* step nor left pending by it), the credential banner is set, the token count of
\* that kind is null and its loading flag is false when the operation ends.
C1_BlankKeyNeverCounts ==
    [][\A kind \in Kinds :
          (IsBlank(apiKey) /\ analyzeTokens(kind)) =>
              /\ CountCalls' = {}
              /\ countOps' = countOps
              /\ Truthy(apiKeyError')
              /\ apiKeyError' = RequiredKeyBanner
              /\ tokenCount'[kind] = NoCount
              /\ ~isLoadingCount'[kind]]_vars

\* a whitespace-only key with content present, a stub provider selected, and the
\* analyze operation stopped at the credential check
C1_Witness ==
    /\ apiKey = " "
    /\ storyText = "tale"
    /\ pdfFile # 0
    /\ selectedProvider = "anthropic"
    /\ apiKeyError = RequiredKeyBanner
    /\ invoked = {}
    /\ tokenCount = [k \in Kinds |-> NoCount]
    /\ isLoadingCount = [k \in Kinds |-> FALSE]

-----------------------------------------------------------------------------
(* The chat specification: handleSendMessage as the orchestrator offers it  *)
(* (also while a turn of the context is in flight), in both contexts, with  *)
(* streaming, cancellation and SDK failures.  The key, the content and the  *)
(* provider are chosen before the first turn starts.                        *)

UserQueries == {"why?"}

\* the fragment of the chat specification
Frags == {Frag("a", 5, 1, 2)}

\* SDK failures of the chat specification
ChatSdkErrors == {SdkAbort, Err("Error", "Quota exceeded"), Err("Error", "fetch failed"),
                  Err("Error", "authentication_error")}

\* the inputs of the chat specification
ChatApiKeys == {" ", "k"}
ChatStoryTexts == {"tale"}
ChatPdfFiles == {1}

\* whether turn t can take a further fragment: the stream of a turn that has not
\* been cancelled carries at most maxFrags fragments
CanChunk(t, maxFrags) == t \in aborted \/ Len(turns[t].frags) < maxFrags

Init ==
    /\ AppInit

Next ==
    \/ \E k \in ChatApiKeys : nTurns = 0 /\ handleApiKeyChange(k)
    \/ \E s \in ChatStoryTexts : nTurns = 0 /\ handleTextChange(s)
    \/ \E f \in ChatPdfFiles : nTurns = 0 /\ handlePdfChange(f)
    \/ \E read \in pdfReads : PdfReadEnds(read, TRUE)
    \/ \E p \in LLM_PROVIDER_IDS : nTurns = 0 /\ handleProviderChange(p)
    \/ ProviderEffect
    \/ ModelEffect
    \/ \E c \in Contexts, q \in UserQueries, sdk \in {NoSdkFailure} \cup ChatSdkErrors :
           handleSendMessage(q, c, sdk)
    \/ \E t \in TurnIds : SendResolved(t)
    \/ \E t \in TurnIds, raw \in ChatSdkErrors : SendRejected(t, raw)
    \/ \E t \in TurnIds, f \in Frags : CanChunk(t, MaxFrags) /\ Chunk(t, f)
    \/ \E t \in TurnIds : StreamEnd(t)
    \/ \E t \in TurnIds, raw \in ChatSdkErrors : StreamThrow(t, raw)
    \/ \E c \in Contexts : Cancel(c)

Spec == Init /\ [][Next]_vars

-----------------------------------------------------------------------------
(* The view-driven specification: the application as its ChatBox drives it, *)
(* started with the key typed, the story text entered and a PDF read.  A    *)
(* message is submitted only when the ChatBox lets it through; the story    *)
(* text and the provider change at any time, also while turns are in flight.*)

\* the state after the key is typed, the text entered and the PDF read
ConfiguredInit ==
    /\ selectedProvider = "google"
    /\ apiKey = "k"
    /\ selectedModel = AVAILABLE_MODELS_BY_PROVIDER("google")[1]
    /\ storyText = "tale"
    /\ pdfFile = 1
    /\ pdfBase64Data = Base64Of(1)
    /\ tokenCount = [k \in Kinds |-> NoCount]
    /\ isLoadingCount = [k \in Kinds |-> FALSE]
    /\ error = Null
    /\ apiKeyError = Null
    /\ session = [c \in Contexts |-> 0]
    /\ messages = [c \in Contexts |-> <<>>]
    /\ loading = [c \in Contexts |-> FALSE]
    /\ chatError = [c \in Contexts |-> Null]
    /\ tokenDetails = [c \in Contexts |-> NullDetails]
    /\ abortRef = [c \in Contexts |-> 0]
    /\ aborted = {}
    /\ turns = [t \in TurnIds |-> IdleTurn]
    /\ nTurns = 0
    /\ history = [c \in Contexts |-> NoHistory]
    /\ countOps = <<>>
    /\ pdfReads = {}
    /\ invoked = {}
    /\ pendingEffects = <<>>
    /\ classified = NoFailure
    /\ stubCall = NoStubCall

\* isDisabled of the context's ChatBox
IsDisabled(c) ==
    \/ IsBlank(apiKey)
    \/ IF c = "text" THEN IsBlank(storyText) ELSE pdfFile = 0 \/ ~Truthy(pdfBase64Data)
    \/ selectedProvider # "google"

\* ChatBox.handleSubmit: the message goes to onSendMessage unless the box is
\* loading or disabled
ChatBoxSubmit(message, c, sdk) ==
    /\ ~IsBlank(message)
    /\ ~loading[c]
    /\ ~IsDisabled(c)
    /\ handleSendMessage(trim(message), c, sdk)

ViewStoryTexts == {"tale", "saga"}
ViewProviders == {"google", "anthropic"}

NextView ==
    \/ \E s \in ViewStoryTexts : handleTextChange(s)
    \/ \E p \in ViewProviders : handleProviderChange(p)
    \/ ProviderEffect
    \/ ModelEffect
    \/ \E c \in Contexts, q \in UserQueries : ChatBoxSubmit(q, c, NoSdkFailure)
    \/ \E t \in TurnIds : SendResolved(t)
    \/ \E t \in TurnIds, f \in Frags : CanChunk(t, MaxFrags) /\ Chunk(t, f)
    \/ \E t \in TurnIds : StreamEnd(t)
    \/ \E c \in Contexts : Cancel(c)

SpecView == ConfiguredInit /\ [][NextView]_vars

-----------------------------------------------------------------------------
(* The fold specification: one turn of the text context whose stream        *)
(* carries any sequence of at most MaxFoldFrags fragments, with or without  *)
(* usage counts, and which the user may cancel.                              *)

FoldFrags == {Frag("a", 10, 2, 3), Frag("b", 0, 0, 4), Frag("c", 99, 0, 2),
              Frag("d", 0, 7, 0), Frag("e", 0, 0, 0)}

NextFold ==
    \/ \E q \in UserQueries : nTurns = 0 /\ ChatBoxSubmit(q, "text", NoSdkFailure)
    \/ \E t \in TurnIds : SendResolved(t)
    \/ \E t \in TurnIds, f \in FoldFrags : CanChunk(t, MaxFoldFrags) /\ Chunk(t, f)
    \/ \E t \in TurnIds : StreamEnd(t)
    \/ Cancel("text")

SpecFold == ConfiguredInit /\ [][NextFold]_vars

\* the count of the first fragment of fs that reports a non-zero one, 0 if none
FirstReported(fs, field) ==
    LET reporting == {i \in 1..Len(fs) : fs[i][field] # 0} IN
    IF reporting = {} THEN 0
    ELSE fs[CHOOSE i \in reporting : \A j \in reporting : i <= j][field]

RECURSIVE SumReported(_, _)
SumReported(fs, field) ==
    IF fs = <<>> THEN 0 ELSE Head(fs)[field] + SumReported(Tail(fs), field)

\* the step in which turn t leaves the fragment loop and commits the ledger turn
CommitsTurn(t) ==
    /\ turns[t].pc = "streaming"
    /\ \/ StreamEnd(t)
       \/ t \in aborted /\ \E f \in FoldFrags \cup Frags : Chunk(t, f)

\* C2: whatever finite sequence of fragments a turn has consumed, the lastTurn it
\* commits has prompt = the promptTokenCount of the first fragment reporting a
\* non-zero one (0 if none), cachedInput = the cachedContentTokenCount of the first
\* fragment reporting a non-zero one (0 if none), completion = the sum of the
\* candidatesTokenCount of all fragments, and total = prompt + completion.
C2_FoldOfFragments ==
    [][\A t \in TurnIds :
          CommitsTurn(t) =>
              LET d == tokenDetails'[turns[t].ctx]
                  fs == turns[t].frags
              IN
              /\ d.lastTurnPromptTokens = FirstReported(fs, "promptTokenCount")
              /\ d.lastTurnCachedInputTokens = FirstReported(fs, "cachedContentTokenCount")
              /\ d.lastTurnCandidateTokens = SumReported(fs, "candidatesTokenCount")
              /\ d.lastTurnTotalTokens =
                     d.lastTurnPromptTokens + d.lastTurnCandidateTokens]_vars

\* the example of the fold: the fragments {prompt 10, cached 2, completion 3},
\* {completion 4}, {prompt 99, completion 2} were consumed (the model message reads
\* "abc") and the committed turn is prompt 10, cached 2, completion 9, total 19
C2_Witness ==
    /\ turns[1].pc = "done"
    /\ \E i \in 1..Len(messages["text"]) :
           messages["text"][i].role = "model" /\ messages["text"][i].content = "abc"
    /\ tokenDetails["text"] # NullDetails
    /\ tokenDetails["text"].lastTurnPromptTokens = 10
    /\ tokenDetails["text"].lastTurnCachedInputTokens = 2
    /\ tokenDetails["text"].lastTurnCandidateTokens = 9
    /\ tokenDetails["text"].lastTurnTotalTokens = 19

-----------------------------------------------------------------------------
(* Claims about the ledger *)

SessionSums(details) ==
    [prompt |-> details.sessionPromptTokens, candidate |-> details.sessionCandidateTokens,
     total |-> details.sessionTotalTokens, cached |-> details.sessionCachedInputTokens]

\* C3: in every reachable state and for each context, a non-null ledger has
\* lastTurn total = lastTurn prompt + lastTurn completion, session total = session
\* prompt + session completion, no negative counter, and session sums equal to the
\* sums of the lastTurn values of all turns committed in the context since its
\* session was last created.
C3_LedgerInvariant ==
    \A c \in Contexts :
        tokenDetails[c] # NullDetails =>
            LET d == tokenDetails[c] IN
            /\ d.lastTurnTotalTokens = d.lastTurnPromptTokens + d.lastTurnCandidateTokens
            /\ d.sessionTotalTokens = d.sessionPromptTokens + d.sessionCandidateTokens
            /\ \A f \in LedgerFields : d[f] >= 0
            /\ SessionSums(d) = history[c].committed

\* the step creates a session for context c
CreatesSession(c) == session[c] = 0 /\ session'[c] # 0

\* C4: whenever handleSendMessage creates a new session for a context, the
\* context's ledger becomes all zeros (all eight counters 0) whatever it held
\* before, and handleSendMessage resets the ledger only then: a send that creates
\* no session leaves the ledger as it is.
C4_ResetOnSessionCreation ==
    [][\A c \in Contexts :
          /\ CreatesSession(c) =>
                 /\ tokenDetails'[c] # NullDetails
                 /\ \A f \in LedgerFields : tokenDetails'[c][f] = 0
          /\ ((\E q \in UserQueries : ChatBoxSubmit(q, c, NoSdkFailure))
                 /\ ~CreatesSession(c)) => tokenDetails'[c] = tokenDetails[c]]_vars

\* a session has just been created over a ledger that held non-zero values, and
\* the ledger is all zeros
C4_Witness ==
    \E c \in Contexts :
        /\ session[c] # 0
        /\ history[c].priorNonZero
        /\ turns[session[c]].pc = "sending"
        /\ tokenDetails[c] = initialChatTokenDetails

-----------------------------------------------------------------------------
(* Claims about cancellation and payloads *)

EndsWith(str, suffix) ==
    Len(str) >= Len(suffix) /\ SubSeq(str, Len(str) - Len(suffix) + 1, Len(str)) = suffix

\* the model messages of turn t in the message sequence msgs
ModelMessagesOf(msgs, t) == SelectSeq(msgs, LAMBDA m : m.id = ModelMessageId(t))

IsCancelledMessage(m) == EndsWith(m.content, " [cancelled]")

\* C5: when the user cancels an in-flight turn and at once sends a new message in
\* the same context, then, once both turns have ended (nothing else having
\* touched them), the cancelled turn's model message is annotated " [cancelled]"
\* and exactly one model message of the two turns is not cancelled.
C5_CancelThenResend ==
    \A c \in Contexts :
        LET old == history[c].resend[1]
            new == history[c].resend[2]
        IN
        (history[c].resend # NoResend /\ turns[old].pc = "done" /\ turns[new].pc = "done")
            => LET ofOld == ModelMessagesOf(messages[c], old)
                   ofNew == ModelMessagesOf(messages[c], new)
               IN
               /\ Len(ofOld) = 1
               /\ IsCancelledMessage(ofOld[1])
               /\ Len(ofNew) = 1
               /\ ~IsCancelledMessage(ofNew[1])

\* C6: in the step that sends a message in the PDF context when the context has
\* no prior user message and the base64 payload is available, the payload handed
\* to sendMessageInChat has exactly two parts: first the inline data part with
\* mimeType application/pdf and the current base64 payload, second a text part
\* that contains the user's query.
C6_FirstPdfPayload ==
    [][\A q \in UserQueries :
          (/\ ChatBoxSubmit(q, "pdf", NoSdkFailure)
           /\ CountUserMessages(messages["pdf"]) = 0
           /\ Truthy(pdfBase64Data))
              => LET payload == turns'[nTurns'].payload IN
                 /\ payload.kind = "parts"
                 /\ Len(payload.parts) = 2
                 /\ payload.parts[1] = InlineDataPart("application/pdf", pdfBase64Data)
                 /\ payload.parts[2].type = "text"
                 /\ includes(payload.parts[2].text, q)]_vars

\* the first turn of the PDF context is being sent with the document and the query
C6_Witness ==
    \E t \in TurnIds :
        /\ turns[t].pc = "sending"
        /\ turns[t].ctx = "pdf"
        /\ turns[t].priorUserMessages = 0
        /\ turns[t].payload.kind = "parts"
        /\ turns[t].payload.parts[1].data = Base64Of(1)
        /\ includes(turns[t].payload.parts[2].text, "why?")

\* C7: in either context, a message sent when the context's session already
\* exists and already holds a user message (the second user turn and every later
\* one) is handed to sendMessageInChat as the raw query string, without the
\* content.
C7_ContentOnlyOnFirstTurn ==
    [][\A c \in Contexts, q \in UserQueries :
          (/\ ChatBoxSubmit(q, c, NoSdkFailure)
           /\ session[c] # 0
           /\ CountUserMessages(messages[c]) >= 1)
              => turns'[nTurns'].payload = RawPayload(q)]_vars

-----------------------------------------------------------------------------
(* The classifier specification: handleApiServiceError applied, from the    *)
(* initial state on, to any sequence of failures and operation contexts.    *)

Classify(e, operationContext) ==
    /\ handleApiServiceError(e, operationContext)
    /\ classified' = [e |-> e, operationContext |-> operationContext]
    /\ invoked' = {}
    /\ UNCHANGED <<selectionVars, contentVars, countVars, chatVars, pendingEffects,
                   stubCall>>

NextClassify ==
    \E e \in ClassifyInputs, operationContext \in OperationContexts :
        Classify(e, operationContext)

SpecClassify == AppInit /\ [][NextClassify]_vars

\* the phrases the credential route is said to look for
ClaimedCredentialPhrases ==
    {"api key", "permission", "quota", "authentication_error", "billing_not_active",
     "incorrect api key", "api_key_missing", "insufficient_quota", "rate_limit_exceeded"}

\* C8: handleApiServiceError sets the credential banner and leaves the generic
\* banner untouched exactly when the failure's kind is ApiKeyOrPermissionError or
\* its message contains, case-insensitively, one of the nine phrases; for every
\* other failure it sets the generic banner to "Failed to {operationContext}:
\* {message}" (an absent message reading "Unknown error") and leaves the
\* credential banner untouched.
C8_ClassifierRoutes ==
    [][\A e \in ClassifyInputs, operationContext \in OperationContexts :
          Classify(e, operationContext) =>
              IF \/ e.name = "ApiKeyOrPermissionError"
                 \/ \E phrase \in ClaimedCredentialPhrases :
                        includes(toLowerCase(e.message), phrase)
              THEN apiKeyError' = e.message /\ error' = error
              ELSE /\ error' = "Failed to " \o operationContext \o ": "
                                   \o (IF e.message = "" THEN "Unknown error" ELSE e.message)
                   /\ apiKeyError' = apiKeyError]_vars

\* C9: a failure of kind AbortError sets neither the credential banner, nor the
\* generic banner, nor a context's error slot; here on the path through the
\* provider adapter's error wrapper, when the SDK call of a token count raises it.
C9_AbortIsSilent ==
    [][\A i \in 1..Len(countOps) :
          CountRejected(i, SdkAbort) =>
              /\ apiKeyError' = apiKeyError
              /\ error' = error
              /\ chatError' = chatError]_vars

-----------------------------------------------------------------------------
(* Claims about the reset on a selection change *)

\* both contexts and both token counts are cleared
AllCleared ==
    /\ \A c \in Contexts :
           /\ messages[c] = <<>>
           /\ session[c] = 0
           /\ chatError[c] = Null
           /\ tokenDetails[c] = NullDetails
    /\ \A k \in Kinds : tokenCount[k] = NoCount

\* C10: when the effects that follow a change of the provider have run, both
\* contexts have no message, no session, no error and a cleared ledger, both
\* token counts are cleared, and the model is the first (default) model of the
\* new provider, whatever the state before.
C10_ProviderChangeResets ==
    [][(pendingEffects # <<>> /\ pendingEffects' = <<>>)
          => /\ AllCleared'
             /\ selectedModel' = AVAILABLE_MODELS_BY_PROVIDER(selectedProvider')[1]]_vars

\* the provider was changed to anthropic after one turn of the text context was
\* committed with non-zero counts and while its second turn was being sent (three
\* messages); the reset has run and everything is cleared
C10_Witness ==
    /\ selectedProvider = "anthropic"
    /\ selectedModel = AVAILABLE_MODELS_BY_PROVIDER("anthropic")[1]
    /\ pendingEffects = <<>>
    /\ AllCleared
    /\ nTurns = 2
    /\ turns[1].pc = "done" /\ turns[1].ctx = "text"
    /\ turns[2].pc = "sending" /\ turns[2].ctx = "text"
    /\ history["text"].committed.total > 0

-----------------------------------------------------------------------------
(* Claims about the selection *)

\* C11: in every reachable state, the state between handleProviderChange and the
\* effect that resets the model included, the selected model is one of the models
\* of the selected provider.
C11_ModelBelongsToProvider ==
    selectedModel \in ModelsOf(selectedProvider)

-----------------------------------------------------------------------------
(* The stub specification: the chat operations of the two stub providers,   *)
(* called on their own with any credential, model, session and payload.     *)

StubProviders == {"anthropic", "openai"}
StubKeys == {"", " ", "  ", "k", " k ", "sk-1"}
StubModels(p) == {"", " ", "m"} \cup ModelsOf(p)
StubSessions == {0, 1}
StubPayloads == {RawPayload(""), RawPayload("why?"), NoPayload,
                 PartsPayload(<<InlineDataPart("application/pdf", Base64Of(1)),
                                TextPart("why?")>>)}

CallStubCreateChatSession(p, key, model) ==
    /\ stubCall' = [provider |-> p, op |-> "createChatSession", args |-> <<key, model>>,
                    outcome |-> Fail(StubCreateChatSession(p, key, model))]
    /\ invoked' = {Call(p, "createChatSession", key)}
    /\ UNCHANGED <<selectionVars, contentVars, countVars, chatVars, error, apiKeyError,
                   pendingEffects, classified>>

CallStubSendMessageInChat(p, chatSession, messageContent, signalAborted) ==
    /\ stubCall' = [provider |-> p, op |-> "sendMessageInChat",
                    args |-> <<chatSession, messageContent, signalAborted>>,
                    outcome |-> Fail(StubSendMessageInChat(p, chatSession, messageContent,
                                                           signalAborted))]
    /\ invoked' = {Call(p, "sendMessageInChat", "")}
    /\ UNCHANGED <<selectionVars, contentVars, countVars, chatVars, error, apiKeyError,
                   pendingEffects, classified>>

NextStub ==
    \/ \E p \in StubProviders, key \in StubKeys :
           \E model \in StubModels(p) : CallStubCreateChatSession(p, key, model)
    \/ \E p \in StubProviders, chatSession \in StubSessions,
          messageContent \in StubPayloads, signalAborted \in BOOLEAN :
           CallStubSendMessageInChat(p, chatSession, messageContent, signalAborted)

SpecStub == AppInit /\ [][NextStub]_vars

\* C12: for both stub providers neither chat operation returns normally:
\* createChatSession raises ApiKeyOrPermissionError when the credential is blank
\* (empty or whitespace only) and NotImplementedError for every non-blank
\* credential with a non-blank model; sendMessageInChat raises
\* NotImplementedError for every input.
C12_StubChatNeverReturns ==
    stubCall # NoStubCall =>
        /\ ~stubCall.outcome.ok
        /\ stubCall.op = "createChatSession" =>
               LET key == stubCall.args[1]
                   model == stubCall.args[2]
                   blank(str) == \A i \in 1..Len(str) : SubSeq(str, i, i) = " "
               IN
               /\ blank(key) => stubCall.outcome.e.name = "ApiKeyOrPermissionError"
               /\ (~blank(key) /\ ~blank(model))
                      => stubCall.outcome.e.name = "NotImplementedError"
        /\ stubCall.op = "sendMessageInChat" =>
               stubCall.outcome.e.name = "NotImplementedError"

\* createChatSession of a stub was called with a blank credential and no model,
\* and raised the credential failure
C12_Witness ==
    /\ stubCall.op = "createChatSession"
    /\ stubCall.provider = "openai"
    /\ stubCall.args = <<" ", "">>
    /\ stubCall.outcome = Fail(validateApiKeyFailure("openai"))

-----------------------------------------------------------------------------
(* Claims about the entry guard of handleSendMessage *)

\* C13: when handleSendMessage is invoked with a blank credential, the context's
\* message sequence, session, ledger, loading flag and cancellation handle are
\* unchanged, no turn starts, no provider adapter operation is invoked, and the
\* context's error slot holds a credential error.
C13_BlankKeySendRejected ==
    [][\A c \in Contexts, q \in UserQueries, sdk \in {NoSdkFailure} \cup ChatSdkErrors :
          (handleSendMessage(q, c, sdk) /\ IsBlank(apiKey)) =>
              /\ messages' = messages
              /\ session' = session
              /\ tokenDetails' = tokenDetails
              /\ loading' = loading
              /\ abortRef' = abortRef /\ aborted' = aborted
              /\ nTurns' = nTurns
              /\ invoked' = {}
              /\ Truthy(chatError'[c])
              /\ includes(chatError'[c], "API Key is required")]_vars

\* a send with a whitespace-only key was rejected in the text context
C13_Witness ==
    /\ apiKey = " "
    /\ storyText = "tale"
    /\ chatError["text"] =
           "API Key is required to start chat. Please enter it above and ensure it's valid."
    /\ apiKeyError = RequiredKeyBanner
    /\ messages["text"] = <<>>
    /\ ~loading["text"]
    /\ nTurns = 0

\* C14: when handleSendMessage is invoked with a non-blank credential while the
\* selected provider is anthropic or openai, createChatSession of that provider is
\* the only adapter operation invoked, the context's error slot is set to the
\* "coming soon" message, no message is appended, the loading flag does not
\* change, no turn starts and neither banner is set.
C14_UnsupportedProviderSend ==
    [][\A c \in Contexts, q \in UserQueries, sdk \in {NoSdkFailure} \cup ChatSdkErrors :
          (handleSendMessage(q, c, sdk) /\ ~IsBlank(apiKey) /\ selectedProvider # "google")
              => /\ invoked' = {Call(selectedProvider, "createChatSession", apiKey)}
                 /\ includes(chatError'[c], "is coming soon.")
                 /\ messages' = messages
                 /\ loading' = loading /\ ~loading'[c]
                 /\ nTurns' = nTurns /\ turns' = turns
                 /\ session' = session
                 /\ apiKeyError' = Null
                 /\ error' = error]_vars

\* a send in the PDF context was answered with the "coming soon" message of OpenAI
C14_Witness ==
    /\ selectedProvider = "openai"
    /\ apiKey = "k"
    /\ invoked = {Call("openai", "createChatSession", "k")}
    /\ chatError["pdf"] =
           "Chat is currently only supported for Google Gemini. Support for OpenAI GPT is coming soon."
    /\ messages["pdf"] = <<>>
    /\ apiKeyError = Null /\ error = Null

-----------------------------------------------------------------------------
(* Claims about content changes *)

\* context c has no message, no session, no error and a cleared ledger
ContextCleared(c) ==
    /\ messages[c] = <<>>
    /\ session[c] = 0
    /\ chatError[c] = Null
    /\ tokenDetails[c] = NullDetails

\* C15: after any change of the story text the text context is cleared (no
\* message, no session, no error, cleared ledger) whatever it held before, and
\* after a PDF file has been selected and read the PDF context is cleared; also
\* when the context has messages but no session, and when a turn is in flight.
C15_ContentChangeResets ==
    [][/\ (\E s \in ViewStoryTexts : handleTextChange(s)) => ContextCleared("text")'
       /\ (\E read \in pdfReads : PdfReadEnds(read, TRUE)) => ContextCleared("pdf")']_vars

\* The PDF specification: from the configured state, PDF files are selected and
\* read (the reads of overlapping selections end in any order, and may fail) and
\* the tokens of the PDF are counted.
NextPdf ==
    \/ \E f \in PdfFiles : handlePdfChange(f)
    \/ handleNonPdfChange
    \/ \E read \in pdfReads, ok \in BOOLEAN : PdfReadEnds(read, ok)
    \/ analyzeTokens("pdf")
    \/ \E i \in 1..Len(countOps), ok \in BOOLEAN : CountReadEnds(i, ok)
    \/ \E i \in 1..Len(countOps), n \in GeminiCounts : CountResolved(i, n)
    \/ \E i \in 1..Len(countOps), raw \in CountSdkErrors : CountRejected(i, raw)

SpecPdf == ConfiguredInit /\ [][NextPdf]_vars

\* C16: in every reachable state the cached base64 payload is null or the
\* encoding of the currently selected PDF file, also while a file read is pending
\* and when the reads of two selections end in either order.
C16_PayloadInSync ==
    pdfBase64Data = Null \/ (pdfFile # 0 /\ pdfBase64Data = Base64Of(pdfFile))

\* C17: when handleSendMessage is invoked, with a non-blank key and google
\* selected, while the context's content is missing (blank story text, null
\* base64 payload), the only state it changes is the context's error slot: the
\* session, the ledger, the messages, the loading flag and the cancellation
\* handle are unchanged, no handle is triggered and no adapter operation is invoked.
C17_MissingContentSendRejected ==
    [][\A c \in Contexts, q \in UserQueries, sdk \in {NoSdkFailure} \cup ChatSdkErrors :
          (/\ handleSendMessage(q, c, sdk)
           /\ ~IsBlank(apiKey)
           /\ selectedProvider = "google"
           /\ IF c = "text" THEN IsBlank(storyText) ELSE pdfBase64Data = Null)
              => /\ session' = session
                 /\ tokenDetails' = tokenDetails
                 /\ messages' = messages
                 /\ loading' = loading
                 /\ abortRef' = abortRef
                 /\ aborted' = aborted
                 /\ invoked' = {}]_vars

-----------------------------------------------------------------------------
(* Claims about the turn *)

HasMessage(msgs, id) == \E i \in 1..Len(msgs) : msgs[i].id = id

\* C18: in every turn that passes the entry guard the user message is in the
\* context's message sequence when sendMessageInChat has been invoked, and a
\* failure that is not on the credential route, raised by createChatSession, by
\* sendMessageInChat or by the stream, leaves the user message in the sequence.
C18_UserMessageFirst ==
    [][/\ \A c \in Contexts, q \in UserQueries, sdk \in {NoSdkFailure} \cup ChatSdkErrors :
             SendGoogle(q, c, sdk) =>
                 LET uid == UserMessageId(nTurns')
                     e == WrappedFailureOf[sdk, "creating chat session"]
                 IN
                 /\ Call("google", "sendMessageInChat", apiKey) \in invoked'
                        => /\ HasMessage(messages'[c], uid)
                           /\ messages'[c][Len(messages'[c])].content = q
                 /\ (/\ session[c] = 0 /\ sdk # NoSdkFailure /\ ~CredentialRouteOf[e])
                        => HasMessage(messages'[c], uid)
       /\ \A t \in TurnIds, raw \in ChatSdkErrors :
             (/\ SendRejected(t, raw) \/ StreamThrow(t, raw)
              /\ ~CredentialRouteOf[raw]
              /\ ~CredentialRouteOf[SendMessageInChatFailure(raw)]
              /\ HasMessage(messages[turns[t].ctx], UserMessageId(t)))
                 => HasMessage(messages'[turns[t].ctx], UserMessageId(t))]_vars

\* sendMessageInChat failed with a network failure and the user message is still
\* in the sequence, flagged as failed
C18_Witness ==
    \E c \in Contexts :
        /\ chatError[c] = "Failed to get chat response: "
               \o "Gemini API error during sending chat message: fetch failed"
        /\ Len(messages[c]) = 1
        /\ messages[c][1].role = "user"
        /\ messages[c][1].content = "why?"
        /\ messages[c][1].error

\* turn t is in flight and a later handleSendMessage has started in its context
Superseded(t) ==
    /\ InFlight(t)
    /\ \E t2 \in TurnIds : t2 > t /\ t2 <= nTurns /\ turns[t2].ctx = turns[t].ctx

\* the content of the model message of turn t in its context, "" if there is none
ModelContentOf(msgs, t) ==
    IF HasMessage(msgs, ModelMessageId(t))
    THEN ModelMessagesOf(msgs, t)[1].content ELSE ""

\* C19: once handleSendMessage has started again in the context of a turn that is
\* still in flight, the earlier turn appends no further fragment text to its
\* model message and commits nothing to the ledger.
C19_SupersededTurnIsDead ==
    [][\A t \in TurnIds :
          (Superseded(t) /\ (StreamEnd(t) \/ \E f \in Frags : Chunk(t, f)))
              => LET c == turns[t].ctx IN
                 /\ tokenDetails'[c] = tokenDetails[c]
                 /\ ModelContentOf(messages'[c], t)
                        \in {ModelContentOf(messages[c], t),
                             ModelContentOf(messages[c], t) \o " [cancelled]"}]_vars

-----------------------------------------------------------------------------
(* The chat specification with fairness: a call of sendMessageInChat settles  *)
(* and a stream ends, so a turn that can take its next step takes one.        *)

TurnStep(t) == SendResolved(t) \/ StreamEnd(t)

SpecLive == Init /\ [][Next]_vars /\ \A t \in TurnIds : WF_vars(TurnStep(t))

\* C20: every turn that has set the loading flag eventually exits, and every
\* step in which a turn exits (natural end, cancellation, content rejection or
\* failure) leaves the context's loading flag false and its cancellation handle
\* null.
C20_TurnExitsAndClears ==
    /\ [][\A t \in TurnIds :
             (turns[t].pc # "done" /\ turns'[t].pc = "done")
                 => /\ ~loading'[turns'[t].ctx]
                    /\ abortRef'[turns'[t].ctx] = 0]_vars
    /\ \A t \in TurnIds : InFlight(t) ~> (turns[t].pc = "done")

\* a cancelled turn has exited, its message annotated, with the loading flag
\* false and the handle null
C20_Witness ==
    \E t \in TurnIds :
        LET c == turns[t].ctx IN
        /\ turns[t].pc = "done"
        /\ HasMessage(messages[c], ModelMessageId(t))
        /\ IsCancelledMessage(ModelMessagesOf(messages[c], t)[1])
        /\ ~loading[c]
        /\ abortRef[c] = 0

-----------------------------------------------------------------------------
(* Claims about the ways a turn ends *)

\* C21: when a PDF turn is started (non-blank key, google selected) while the
\* base64 payload is null, no provider adapter operation is invoked, the message
\* sequence of the pdf context is as before the send, the pdf context's error
\* slot holds the failure and its loading flag is false.
C21_PdfTurnWithoutPayload ==
    [][\A q \in UserQueries, sdk \in {NoSdkFailure} \cup ChatSdkErrors :
          (/\ handleSendMessage(q, "pdf", sdk)
           /\ ~IsBlank(apiKey)
           /\ selectedProvider = "google"
           /\ pdfBase64Data = Null)
              => /\ invoked' = {}
                 /\ messages'["pdf"] = messages["pdf"]
                 /\ Truthy(chatError'["pdf"])
                 /\ ~loading'["pdf"]]_vars

C23_LedgerOnlyOnCompletion ==
    [][\A t \in TurnIds :
          (\/ \E f \in Frags : t \in aborted /\ Chunk(t, f)
           \/ \E raw \in ChatSdkErrors : SendRejected(t, raw) \/ StreamThrow(t, raw))
              => tokenDetails'[turns[t].ctx] = tokenDetails[turns[t].ctx]]_vars

\* the failure half of C23 alone
C23_FailureKeepsLedger ==
    [][\A t \in TurnIds, raw \in ChatSdkErrors :
          (SendRejected(t, raw) \/ StreamThrow(t, raw))
              => tokenDetails'[turns[t].ctx] = tokenDetails[turns[t].ctx]]_vars

\* the failure the catch block of turn t receives in this step, if the step is
\* a rejected send or a raising stream
FailsWith(t, e) ==
    \E raw \in ChatSdkErrors :
        \/ SendRejected(t, raw) /\ e = SendMessageInChatFailure(raw)
        \/ StreamThrow(t, raw) /\ e = raw

\* the failures a turn of the chat specification can end with
ChatFailures == ChatSdkErrors \cup {SendMessageInChatFailure(raw) : raw \in ChatSdkErrors}

\* C24: when a turn fails with a failure on the classifier's credential route
\* (kind ApiKeyOrPermissionError, or a message containing one of the five
\* phrases), the failure's message is put in the credential banner, the
\* context's error slot is left as it was, and neither the turn's user message
\* nor its model placeholder remains in the sequence.
C24_CredentialFailureOfTurn ==
    [][\A t \in TurnIds, e \in ChatFailures :
          (FailsWith(t, e) /\ e.name # "AbortError" /\ IsCredentialRoute(e)) =>
              LET c == turns[t].ctx IN
              /\ apiKeyError' = e.message
              /\ chatError'[c] = chatError[c]
              /\ ~HasMessage(messages'[c], UserMessageId(t))
              /\ ~HasMessage(messages'[c], ModelMessageId(t))]_vars

\* C24 for the failures the catch block itself recognises (three phrases)
C24_RecognisedFailureOfTurn ==
    [][\A t \in TurnIds, e \in ChatFailures :
          (FailsWith(t, e) /\ e.name # "AbortError" /\ IsChatCredentialFailure(e)) =>
              LET c == turns[t].ctx IN
              /\ apiKeyError' = e.message
              /\ chatError'[c] = chatError[c]
              /\ ~HasMessage(messages'[c], UserMessageId(t))
              /\ ~HasMessage(messages'[c], ModelMessageId(t))]_vars

\* the message the catch block of turn t is to mark: modelMessageId || userMessageId
TargetMessageId(t) ==
    IF turns[t].modelMessageId # 0 THEN turns[t].modelMessageId ELSE UserMessageId(t)

\* the messages of msgs with the given id
MessagesWithId(msgs, id) == SelectSeq(msgs, LAMBDA m : m.id = id)

\* C25: when a turn fails with a failure that is neither an AbortError nor on the
\* credential route, the context's error slot gets the generic message, and
\* the turn's model placeholder (its user message when no placeholder exists)
\* is in the sequence, non-streaming, flagged as an error, with a content that
\* ends with " [Error]".
C25_GenericFailureOfTurn ==
    [][\A t \in TurnIds, e \in ChatFailures :
          (FailsWith(t, e) /\ e.name # "AbortError" /\ ~IsCredentialRoute(e)) =>
              LET c == turns[t].ctx
                  marked == MessagesWithId(messages'[c], TargetMessageId(t))
              IN
              /\ chatError'[c] = "Failed to get chat response: " \o ErrorMessageOf(e)
              /\ Len(marked) = 1
              /\ ~marked[1].isStreaming
              /\ marked[1].error
              /\ EndsWith(marked[1].content, " [Error]")]_vars

\* C25 for a failure raised by the stream, when the placeholder exists
C25_GenericFailureOfStream ==
    [][\A t \in TurnIds, e \in ChatSdkErrors :
          (StreamThrow(t, e) /\ e.name # "AbortError" /\ ~IsCredentialRoute(e)) =>
              LET c == turns[t].ctx
                  marked == MessagesWithId(messages'[c], ModelMessageId(t))
              IN
              /\ chatError'[c] = "Failed to get chat response: " \o ErrorMessageOf(e)
              /\ Len(marked) = 1
              /\ ~marked[1].isStreaming
              /\ marked[1].error
              /\ EndsWith(marked[1].content, " [Error]")]_vars

\* C26: when a turn fails with an AbortError, the turn's model placeholder (its
\* user message when no placeholder exists yet) is kept in the sequence,
\* non-streaming, with " [cancelled]" appended to the content it had.
C26_AbortedTurn ==
    [][\A t \in TurnIds, e \in ChatFailures :
          (FailsWith(t, e) /\ e.name = "AbortError") =>
              LET c == turns[t].ctx
                  before == MessagesWithId(messages[c], TargetMessageId(t))
                  marked == MessagesWithId(messages'[c], TargetMessageId(t))
              IN
              /\ Len(before) = 1
              /\ Len(marked) = 1
              /\ ~marked[1].isStreaming
              /\ marked[1].content = before[1].content \o " [cancelled]"]_vars

\* C26 for an AbortError raised by the stream, when the placeholder exists
C26_AbortedStream ==
    [][\A t \in TurnIds :
          StreamThrow(t, SdkAbort) =>
              LET c == turns[t].ctx
                  before == MessagesWithId(messages[c], ModelMessageId(t))
                  marked == MessagesWithId(messages'[c], ModelMessageId(t))
              IN
              /\ Len(before) = 1
              /\ Len(marked) = 1
              /\ ~marked[1].isStreaming
              /\ marked[1].content = before[1].content \o " [cancelled]"]_vars

(* Claims about the two contexts and about resets *)

\* this step is a step of a chat turn of context c: a send, the resolution or
\* rejection of sendMessageInChat, a fragment, the end or a failure of the
\* stream (each with the turn's exit where it ends the turn), or a cancel
StepOfContext(c) ==
    \/ \E q \in UserQueries, sdk \in {NoSdkFailure} \cup ChatSdkErrors :
           handleSendMessage(q, c, sdk)
    \/ \E t \in TurnIds :
           /\ turns[t].ctx = c
           /\ \/ SendResolved(t)
              \/ StreamEnd(t)
              \/ \E f \in Frags : Chunk(t, f)
              \/ \E raw \in ChatSdkErrors : SendRejected(t, raw) \/ StreamThrow(t, raw)
    \/ Cancel(c)

\* C27: every step of a chat turn of one context leaves the other context's
\* message sequence, session handle, loading flag, error slot, ledger and
\* cancellation handle unchanged.
C27_ContextsIndependent ==
    [][\A c \in Contexts, o \in Contexts :
          (o # c /\ StepOfContext(c)) =>
              /\ messages'[o] = messages[o]
              /\ session'[o] = session[o]
              /\ loading'[o] = loading[o]
              /\ chatError'[o] = chatError[o]
              /\ tokenDetails'[o] = tokenDetails[o]
              /\ abortRef'[o] = abortRef[o]]_vars

\* both contexts have a turn in flight, each streaming under its own handle
C27_Witness ==
    /\ turns[1].pc = "streaming"
    /\ turns[2].pc = "streaming"
    /\ turns[1].ctx # turns[2].ctx
    /\ loading["text"] /\ loading["pdf"]
    /\ abortRef[turns[1].ctx] = 1
    /\ abortRef[turns[2].ctx] = 2
    /\ ModelContentOf(messages[turns[1].ctx], 1) = "a"

-----------------------------------------------------------------------------
(* The credential specification: the configured application, in which the   *)
(* user chats in both contexts and retypes the key at any time.  Provider   *)
(* and model are never changed, so every run of a reset effect follows a    *)
(* change of the key.                                                        *)

KeyInputs == {"k", "k2"}

NextKey ==
    \/ \E k \in KeyInputs : handleApiKeyChange(k)
    \/ ProviderEffect
    \/ ModelEffect
    \/ \E c \in Contexts, q \in UserQueries : ChatBoxSubmit(q, c, NoSdkFailure)
    \/ \E t \in TurnIds : SendResolved(t)
    \/ \E t \in TurnIds, f \in Frags : CanChunk(t, MaxFrags) /\ Chunk(t, f)
    \/ \E t \in TurnIds : StreamEnd(t)

SpecKey == ConfiguredInit /\ [][NextKey]_vars

\* C28: handleApiKeyChange and the effects that run after it (the first of
\* them runs with the queue EffectsFor("apiKey")) leave the provider and the
\* model as they were, and leave both contexts their message sequence, their
\* session and their ledger.
C28_KeyChangeResetsNothing ==
    [][(\/ \E k \in KeyInputs : handleApiKeyChange(k)
        \/ pendingEffects = EffectsFor("apiKey") /\ ProviderEffect
        \/ ModelEffect)
          => /\ selectedProvider' = selectedProvider
             /\ selectedModel' = selectedModel
             /\ messages' = messages
             /\ session' = session
             /\ tokenDetails' = tokenDetails]_vars

\* the handler alone resets nothing: the resets come from the effects
C28_HandlerResetsNothing ==
    [][(\E k \in KeyInputs : handleApiKeyChange(k))
          => /\ selectedProvider' = selectedProvider
             /\ selectedModel' = selectedModel
             /\ messages' = messages
             /\ session' = session
             /\ tokenDetails' = tokenDetails]_vars

\* turn t is in flight in a context that resetChatStates has cleared since the
\* turn began and in which nothing has been sent since: a turn starts with a
\* session in its context, only a reset makes the session null, and
\* resetChatStates aborts the turn's controller and nulls the context's handle
ResetInFlight(t) ==
    /\ InFlight(t)
    /\ t \in aborted
    /\ abortRef[turns[t].ctx] = 0
    /\ session[turns[t].ctx] = 0
    /\ messages[turns[t].ctx] = <<>>
    /\ tokenDetails[turns[t].ctx] = NullDetails

\* C29: a step of a turn whose context was reset while the turn was in flight
\* (the resolution of sendMessageInChat, a fragment, the end of the stream)
\* leaves the context's message sequence empty, its session null and its
\* ledger cleared.
C29_ResetContextStaysCleared ==
    [][\A t \in TurnIds :
          (/\ ResetInFlight(t)
           /\ \/ SendResolved(t)
              \/ StreamEnd(t)
              \/ \E f \in Frags : Chunk(t, f))
              => LET c == turns[t].ctx IN
                 /\ messages'[c] = <<>>
                 /\ session'[c] = 0
                 /\ tokenDetails'[c] = NullDetails]_vars

\* the session half of C29 alone: no step of such a turn restores a session
C29_ResetSessionStaysNull ==
    [][\A t \in TurnIds :
          (/\ ResetInFlight(t)
           /\ \/ SendResolved(t)
              \/ StreamEnd(t)
              \/ \E f \in Frags : Chunk(t, f))
              => session'[turns[t].ctx] = 0]_vars

\* C30: in every reachable state, for every turn that is in flight and whose
\* controller has not been aborted, the loading flag of the turn's context is
\* true and the context's cancellation handle is the controller of that turn.
C30_LiveTurnOwnsHandle ==
    \A t \in TurnIds :
        (InFlight(t) /\ t \notin aborted)
            => /\ loading[turns[t].ctx]
               /\ abortRef[turns[t].ctx] = t

\* C30 for the exit of a turn that has not been superseded: the exit of the
\* only turn in flight in its context clears that turn's own flag and handle
C30_ExitOfOnlyTurn ==
    [][\A t \in TurnIds :
          (/\ InFlight(t)
           /\ turns'[t].pc = "done"
           /\ \A t2 \in TurnIds \ {t} : ~(InFlight(t2) /\ turns[t2].ctx = turns[t].ctx))
              => /\ abortRef[turns[t].ctx] \in {0, t}
                 /\ ~loading'[turns[t].ctx]
                 /\ abortRef'[turns[t].ctx] = 0]_vars

====
